---- MODULE Spec2Model ----
(***************************************************************************)
(* moontest: TestRunner.run drives, per query of a UITest, a browser       *)
(* capture (ScreenshotManager) and a vision analysis (VisionAnalyzer),     *)
(* collects QueryResults into a TestResult and appends it to results.json. *)
(* One behaviour of Spec is one invocation of TestRunner.run; SpecAnalyze   *)
(* is analyze on its own, SpecStore is _save_results called repeatedly on  *)
(* one store, SpecTwoRuns is two runs as tasks of one event loop.          *)
(***************************************************************************)
EXTENDS Integers, Sequences, FiniteSets, TLC

\* ---------------------------------------------------------------- bounds
MaxQueries == 2
MaxRetryAttempts == 2
MaxShots == 4
\* how many calls of the browser, the model and the file system fail in a run
MaxFaults == 2
\* how many times _save_results is called on one store
MaxSaves == 3

\* ------------------------------------------------------ program constants
retry_delay == 1000
ShotsPerBurst == 5
MsPerSecond == 1000

\* ------------------------------------------------------------ data model
\* Optional[T]: None is the empty tuple, a present value v is <<v>>.
None == <<>>
Some(v) == <<v>>

\* the values of UIQuery.screenshot_interval_ms the tests are drawn from
Intervals == {None, Some(0), Some(500)}

\* the k-th query of a test asks question k: a test asks each question once
UIQuery(k) == [question : {k}, expected_response : {"Yes"},
               screenshot_interval_ms : Intervals]

QueryLists(n) == UNION {{qs \in [1..k -> UNION {UIQuery(j) : j \in 1..k}] :
                            \A j \in 1..k : qs[j].question = j} : k \in 0..n}

UITest == [name : {"T"}, url : {"http://page"}, queries : QueryLists(MaxQueries)]

QueryResult(query, actual_response, shots) ==
    [query |-> query, actual_response |-> actual_response,
     screenshots |-> shots, passed |-> None, error |-> None]

TestResult(t, start) ==
    [test |-> t, query_results |-> <<>>, start_time |-> start,
     end_time |-> None, error |-> None]

\* the answers model.query can give; the model may answer nothing
Answers == {"", "Yes"}

\* an exception: where it was raised and the message str(e) yields
Exc(src, n) == [src |-> src, msg |-> [text |-> src, n |-> n]]
Str(e) == e.msg

\* datetime.isoformat() and str(Path): a rendering tagged with what it renders
isoformat(t) == [iso |-> t]
PathStr(p) == [path |-> p]

QueryDict(qr) ==
    [question |-> qr.query.question, expected |-> qr.query.expected_response,
     actual |-> qr.actual_response, passed |-> qr.passed, error |-> qr.error,
     screenshots |-> [k \in DOMAIN qr.screenshots |-> PathStr(qr.screenshots[k])]]

to_dict(r) ==
    [test_name |-> r.test.name, url |-> r.test.url,
     start_time |-> isoformat(r.start_time),
     end_time |-> IF r.end_time # None THEN Some(isoformat(r.end_time[1])) ELSE None,
     error |-> r.error,
     queries |-> [k \in DOMAIN r.query_results |-> QueryDict(r.query_results[k])]]

\* ------------------------------------------------------------- results.json
\* the file is absent, holds a JSON array, or holds text json.load rejects
Absent == [kind |-> "absent", entries |-> <<>>]
Valid(entries) == [kind |-> "valid", entries |-> entries]
Corrupt == [kind |-> "corrupt", entries |-> <<>>]

PriorRecord ==
    to_dict([TestResult([name |-> "T", url |-> "http://page", queries |-> <<>>], 0)
                EXCEPT !.end_time = Some(0)])

PriorRecords == <<PriorRecord>>

\* a run starts on a store that an earlier run has written
InitStores == {Valid(PriorRecords)}

IoOutcomes == {"ok", "read_fail", "open_fail", "dump_fail"}

\* the file is written without being read first: only the new record is kept
SaveResults_Overwrite(st, r, io) ==
    CASE io = "open_fail" -> st
      [] io = "dump_fail" -> Corrupt
      [] OTHER -> Valid(<<to_dict(r)>>)

\* the array is the one the store held when the runner was built, not the one
\* read at the time of the save: the last writer wins
SaveResults_StaleRead(st, r, io) ==
    IF st.kind # "absent" /\ (st.kind = "corrupt" \/ io = "read_fail")
    THEN st
    ELSE CASE io = "open_fail" -> st
           [] io = "dump_fail" -> Corrupt
           [] OTHER -> Valid(Append(PriorRecords, to_dict(r)))

\* TestRunner._save_results: read, append, rewrite; every failure is swallowed
SaveResults(st, r, io) ==
    IF st.kind # "absent" /\ (st.kind = "corrupt" \/ io = "read_fail")
    THEN st
    ELSE LET results == IF st.kind = "absent" THEN <<>> ELSE st.entries
         IN  CASE io = "open_fail" -> st
               [] io = "dump_fail" -> Corrupt
               [] OTHER -> Valid(Append(results, to_dict(r)))

\* the store after a save holds one record more than the store before it
Appended(st, after) ==
    after.kind = "valid" /\ Len(after.entries) = Len(st.entries) + 1

\* ------------------------------------------------------------------ state
VARIABLES
    retry_attempts, \* Config.retry_attempts
    store,          \* screenshot_dir / "results.json"
    files,          \* screenshot files written, each with the capture that wrote it last
    now,            \* the wall clock, in milliseconds
    openBrowsers,   \* browser processes launched and not closed
    faults,         \* the calls that have failed so far
    pc,             \* where run is
    result,         \* run: result
    qi,             \* run: index of the query the loop is at
    exc,            \* the exception propagating to run's handler
    ret,            \* what run returned
    attempt,        \* _setup_browser: attempt
    session,        \* capture: browser, context, page
    screenshots,    \* capture: screenshots
    i,              \* capture: index of the dynamic loop
    capExc,         \* capture: the exception raised inside the try block
    sleeps,         \* the asyncio.sleep calls of the capture, in milliseconds
    ai,             \* analyze: index of the screenshot the loop is at
    answers,        \* analyze: answers
    actual,         \* run: actual_response
    calls,          \* the load / encode / query steps of the analysis
    modelAnswers,   \* what model.query answered, per call
    hist,           \* what the run did so far
    parked          \* the frame of a second run of the event loop, suspended

vars == <<retry_attempts, store, files, now, openBrowsers, faults, pc, result, qi, exc, ret,
          attempt, session, screenshots, i, capExc, sleeps, ai,
          answers, actual, calls, modelAnswers, hist, parked>>

config == <<retry_attempts>>
runVars == <<result, qi, exc, ret>>
captureVars == <<attempt, session, screenshots, i, capExc, sleeps>>
analyzeVars == <<ai, answers, actual, calls, modelAnswers>>
envVars == <<store, files, now, openBrowsers>>

NoTest == [name |-> "T", url |-> "http://page", queries |-> <<>>]

\* nothing done yet; saved tells, per call of _save_results, whether the
\* record was appended to the store; concurrent, whether the run awaited
\* while another run of the event loop had not returned
NoHist == [captures |-> {}, analyses |-> {}, shots |-> {}, attempts |-> 0,
           warnings |-> <<>>, failedAt |-> 0, endSets |-> 0, saves |-> <<>>,
           saved |-> <<>>, concurrent |-> FALSE]

Init ==
    /\ retry_attempts \in 0..MaxRetryAttempts
    /\ store \in InitStores
    /\ files = {}
    /\ now = 0
    /\ openBrowsers = 0
    /\ faults = 0
    /\ pc = "idle"
    /\ result = TestResult(NoTest, 0)
    /\ qi = 1
    /\ exc = None
    /\ ret = None
    /\ attempt = 0
    /\ session = None
    /\ screenshots = <<>>
    /\ i = 0
    /\ capExc = None
    /\ sleeps = <<>>
    /\ ai = 1
    /\ answers = <<>>
    /\ actual = ""
    /\ calls = <<>>
    /\ modelAnswers = <<>>
    /\ hist = NoHist
    /\ parked = None

test == result.test
query == test.queries[qi]

Hist(field, v) == [hist EXCEPT ![field] = v]

\* a call outside the program raises or not
Fault(failed) ==
    IF failed THEN faults < MaxFaults /\ faults' = faults + 1
    ELSE UNCHANGED faults

\* ------------------------------------------------------------ TestRunner.run
\* lines 174-181: record start_time, start with no query results
Start(t) ==
    /\ UNCHANGED faults
    /\ pc = "idle"
    /\ result' = TestResult(t, now)
    /\ qi' = 1
    /\ pc' = "loop"
    /\ UNCHANGED <<config, parked, envVars, exc, ret, captureVars, analyzeVars, hist>>

\* the body of the loop runs before the list is tested for its end
NextQuery_DoWhile ==
    /\ UNCHANGED faults
    /\ pc = "loop"
    /\ qi <= Len(test.queries) \/ qi = 1
    /\ attempt' = 0
    /\ session' = None
    /\ screenshots' = <<>>
    /\ capExc' = None
    /\ sleeps' = <<>>
    /\ i' = 0
    /\ hist' = [hist EXCEPT !.captures = @ \cup {qi}, !.attempts = 0,
                            !.warnings = <<>>]
    /\ pc' = "setup"
    /\ UNCHANGED <<config, parked, envVars, runVars, analyzeVars>>

\* line 184 and line 187: the loop takes the next query and calls capture
NextQuery ==
    /\ UNCHANGED faults
    /\ pc = "loop"
    /\ qi <= Len(test.queries)
    /\ attempt' = 0
    /\ session' = None
    /\ screenshots' = <<>>
    /\ capExc' = None
    /\ sleeps' = <<>>
    /\ i' = 0
    /\ hist' = [hist EXCEPT !.captures = @ \cup {qi}, !.attempts = 0,
                            !.warnings = <<>>]
    /\ pc' = "setup"
    /\ UNCHANGED <<config, parked, envVars, runVars, analyzeVars>>

\* line 184: the loop is over
LoopDone ==
    /\ UNCHANGED faults
    /\ pc = "loop"
    /\ qi > Len(test.queries)
    /\ pc' = "finally"
    /\ UNCHANGED <<config, parked, envVars, runVars, captureVars, analyzeVars, hist>>

\* ------------------------------------------- ScreenshotManager._setup_browser
\* an attempt succeeds, fails at launch (line 96), or fails once the browser
\* runs, at new_context or new_page (lines 97-101)
SetupOutcomes == {"ok", "launch", "page"}

\* line 93: for attempt in range(retry_attempts)
InRange(a) == a < retry_attempts

\* off by one: no attempt is taken for the last one
IsLastAttempt_OffByOne(a) == a = retry_attempts

\* line 104: the attempt is the last one
IsLastAttempt(a) == a = retry_attempts - 1

\* asyncio.sleep takes seconds: the delay in milliseconds is divided by 1000
SleepSeconds(ms) == [num |-> ms, den |-> MsPerSecond]
\* the milliseconds the clock advances over a sleep of that many seconds
Elapsed(seconds) == (seconds.num * MsPerSecond) \div seconds.den

\* lines 94-106: one attempt to launch a browser, open a context and a page
SetupAttempt(outcome) ==
    /\ Fault(outcome # "ok")
    /\ pc = "setup"
    /\ InRange(attempt)
    /\ openBrowsers' = openBrowsers + (IF outcome = "launch" THEN 0 ELSE 1)
    /\ IF outcome = "ok"
       THEN /\ session' = Some([browser |-> "open", context |-> "open"])
            /\ hist' = [hist EXCEPT !.attempts = @ + 1]
            /\ pc' = "goto"
            /\ UNCHANGED exc
       ELSE /\ UNCHANGED session
            /\ IF IsLastAttempt(attempt)
               THEN /\ exc' = Some(Exc(outcome, attempt))
                    /\ hist' = [hist EXCEPT !.attempts = @ + 1, !.failedAt = qi]
                    /\ pc' = "except"
               ELSE /\ hist' = [hist EXCEPT !.attempts = @ + 1,
                                   !.warnings = Append(@, Str(Exc(outcome, attempt)))]
                    /\ pc' = "setup_sleep"
                    /\ UNCHANGED exc
    /\ UNCHANGED <<config, parked, store, files, now, result, qi, ret, attempt,
                   screenshots, i, capExc, sleeps, analyzeVars>>

\* line 107: wait retry_delay, then the next attempt
SetupSleep ==
    /\ UNCHANGED faults
    /\ pc = "setup_sleep"
    /\ sleeps' = Append(sleeps, Elapsed(SleepSeconds(retry_delay)))
    /\ now' = now + Elapsed(SleepSeconds(retry_delay))
    /\ attempt' = attempt + 1
    /\ pc' = "setup"
    /\ UNCHANGED <<config, parked, store, files, openBrowsers, runVars, session,
                   screenshots, i, capExc, analyzeVars, hist>>

\* the loop of line 93 ends without a return: _setup_browser returns None,
\* and unpacking it at line 111 raises TypeError
SetupExhausted ==
    /\ UNCHANGED faults
    /\ pc = "setup"
    /\ ~InRange(attempt)
    /\ exc' = Some(Exc("unpack", 0))
    /\ hist' = Hist("failedAt", qi)
    /\ pc' = "except"
    /\ UNCHANGED <<config, parked, envVars, result, qi, ret, captureVars, analyzeVars>>

\* ------------------------------------------------- ScreenshotManager.capture
\* line 117: if query.screenshot_interval_ms
Truthy(opt) == opt # None /\ opt[1] # 0

\* lines 137-142: test name, timestamp to the second, index when given
get_screenshot_path(t, clock, index) ==
    [name |-> t.name, timestamp |-> clock \div MsPerSecond, index |-> index]

\* page.screenshot(path=p): the file at p now holds this capture's image
WriteFile(fs, p, image) == {f \in fs : f.path # p} \cup {[path |-> p, image |-> image]}

\* lines 115-117: navigate, then pick the capture mode
Goto(ok) ==
    /\ Fault(~ok)
    /\ pc = "goto"
    /\ IF ok
       THEN /\ pc' = IF Truthy(query.screenshot_interval_ms) THEN "dyn" ELSE "single"
            /\ UNCHANGED capExc
       ELSE /\ capExc' = Some(Exc("goto", 0))
            /\ pc' = "close_context"
    /\ i' = 0
    /\ UNCHANGED <<config, parked, envVars, runVars, attempt, session,
                   screenshots, sleeps, analyzeVars, hist>>

interval == query.screenshot_interval_ms[1]
\* the window is computed in seconds and the range stays in milliseconds
duration_InSeconds == (interval \div MsPerSecond) * ShotsPerBurst

\* line 119
duration == interval * ShotsPerBurst

\* lines 120-123: one screenshot of the burst
DynShot(ok) ==
    /\ Fault(~ok)
    /\ pc = "dyn"
    /\ i < duration
    /\ hist' = [hist EXCEPT !.shots = @ \cup {qi}]
    /\ LET path == get_screenshot_path(test, now, Some(i))
       IN IF ok
          THEN /\ files' = WriteFile(files, path, [q |-> qi, k |-> Len(screenshots) + 1])
               /\ screenshots' = Append(screenshots, path)
               /\ pc' = "dyn_sleep"
               /\ UNCHANGED capExc
          ELSE /\ capExc' = Some(Exc("screenshot", i))
               /\ pc' = "close_context"
               /\ UNCHANGED <<files, screenshots>>
    /\ UNCHANGED <<config, parked, store, now, openBrowsers, runVars, attempt, session,
                   i, sleeps, analyzeVars>>

\* line 124 and the step of range(0, duration, interval)
DynSleep ==
    /\ UNCHANGED faults
    /\ pc = "dyn_sleep"
    /\ sleeps' = Append(sleeps, Elapsed(SleepSeconds(interval)))
    /\ now' = now + Elapsed(SleepSeconds(interval))
    /\ i' = i + interval
    /\ pc' = "dyn"
    /\ UNCHANGED <<config, parked, store, files, openBrowsers, runVars, attempt, session,
                   screenshots, capExc, analyzeVars, hist>>

\* line 120: the range is used up
DynDone ==
    /\ UNCHANGED faults
    /\ pc = "dyn"
    /\ ~(i < duration)
    /\ pc' = "close_context"
    /\ UNCHANGED <<config, parked, envVars, runVars, captureVars, analyzeVars, hist>>

\* lines 127-129: the single screenshot
SingleShot(ok) ==
    /\ Fault(~ok)
    /\ pc = "single"
    /\ hist' = [hist EXCEPT !.shots = @ \cup {qi}]
    /\ LET path == get_screenshot_path(test, now, None)
       IN IF ok
          THEN /\ files' = WriteFile(files, path, [q |-> qi, k |-> Len(screenshots) + 1])
               /\ screenshots' = Append(screenshots, path)
               /\ UNCHANGED capExc
          ELSE /\ capExc' = Some(Exc("screenshot", 0))
               /\ UNCHANGED <<files, screenshots>>
    /\ pc' = "close_context"
    /\ UNCHANGED <<config, parked, store, now, openBrowsers, runVars, attempt, session,
                   i, sleeps, analyzeVars>>

\* line 132, in the finally block: a failure here skips line 133 and replaces
\* the exception of the try block
ContextClose(ok) ==
    /\ Fault(~ok)
    /\ pc = "close_context"
    /\ IF ok
       THEN /\ session' = Some([session[1] EXCEPT !.context = "closed"])
            /\ pc' = "close_browser"
            /\ UNCHANGED <<exc, hist>>
       ELSE /\ exc' = Some(Exc("context.close", 0))
            /\ hist' = Hist("failedAt", qi)
            /\ pc' = "except"
            /\ UNCHANGED session
    /\ UNCHANGED <<config, parked, envVars, result, qi, ret, attempt, screenshots,
                   i, capExc, sleeps, analyzeVars>>

\* lines 133-135: close the browser, then re-raise the pending exception or
\* return the screenshots
BrowserClose(ok) ==
    /\ Fault(~ok)
    /\ pc = "close_browser"
    /\ IF ok
       THEN /\ session' = Some([session[1] EXCEPT !.browser = "closed"])
            /\ openBrowsers' = openBrowsers - 1
            /\ IF capExc # None
               THEN /\ exc' = capExc
                    /\ hist' = Hist("failedAt", qi)
                    /\ pc' = "except"
               ELSE /\ pc' = "captured"
                    /\ UNCHANGED <<exc, hist>>
       ELSE /\ exc' = Some(Exc("browser.close", 0))
            /\ hist' = Hist("failedAt", qi)
            /\ pc' = "except"
            /\ UNCHANGED <<session, openBrowsers>>
    /\ UNCHANGED <<config, parked, store, files, now, result, qi, ret, attempt,
                   screenshots, i, capExc, sleeps, analyzeVars>>

\* ---------------------------------------------------- VisionAnalyzer.analyze
AnalyzeOutcomes == {"ok", "load", "encode", "query"}

\* the steps of lines 157-159 that run when the outcome is the given one
StepsRun(outcome) ==
    CASE outcome = "load" -> <<"load">>
      [] outcome = "encode" -> <<"load", "encode">>
      [] OTHER -> <<"load", "encode", "query">>

CallsOf(k, outcome) ==
    [n \in 1..Len(StepsRun(outcome)) |->
        [k |-> k, step |-> StepsRun(outcome)[n],
         ok |-> (outcome = "ok" \/ n < Len(StepsRun(outcome)))]]

\* line 188 and line 153: run calls analyze with the screenshots of capture
AnalyzeCall ==
    /\ UNCHANGED faults
    /\ pc = "captured"
    /\ answers' = <<>>
    /\ ai' = 1
    /\ calls' = <<>>
    /\ modelAnswers' = <<>>
    /\ hist' = [hist EXCEPT !.analyses = @ \cup {qi}]
    /\ pc' = "analyze"
    /\ UNCHANGED <<config, parked, envVars, runVars, captureVars, actual>>

\* lines 155-160: load, encode and query one screenshot, keep the answer
AnalyzeShot(a) ==
    /\ UNCHANGED faults
    /\ pc = "analyze"
    /\ ai <= Len(screenshots)
    /\ calls' = calls \o CallsOf(ai, "ok")
    /\ modelAnswers' = Append(modelAnswers, a)
    /\ answers' = Append(answers, a)
    /\ ai' = ai + 1
    /\ UNCHANGED <<config, parked, envVars, runVars, captureVars, actual, hist, pc>>

\* the failure is logged and swallowed, the loop goes on
AnalyzeFail_Swallowed(outcome) ==
    /\ Fault(TRUE)
    /\ pc = "analyze"
    /\ ai <= Len(screenshots)
    /\ outcome # "ok"
    /\ calls' = calls \o CallsOf(ai, outcome)
    /\ ai' = ai + 1
    /\ UNCHANGED <<config, parked, envVars, runVars, captureVars, answers, actual,
                   modelAnswers, hist, pc>>

\* lines 161-163: a step fails; the failure is logged and raised again, and
\* the answers collected so far go away with the frame of analyze
AnalyzeFail(outcome) ==
    /\ Fault(TRUE)
    /\ pc = "analyze"
    /\ ai <= Len(screenshots)
    /\ outcome # "ok"
    /\ calls' = calls \o CallsOf(ai, outcome)
    /\ answers' = <<>>
    /\ modelAnswers' = <<>>
    /\ exc' = Some(Exc(outcome, ai))
    /\ hist' = Hist("failedAt", qi)
    /\ pc' = "except"
    /\ UNCHANGED <<config, parked, envVars, result, qi, ret, captureVars, ai, actual>>

\* the first answer instead of the last
AnalyzeResult_First(ans) == IF ans # <<>> THEN ans[1] ELSE ""

\* line 165
AnalyzeResult(ans) == IF ans # <<>> THEN ans[Len(ans)] ELSE ""

\* line 165 and line 188: analyze returns, run keeps the value
AnalyzeReturn ==
    /\ UNCHANGED faults
    /\ pc = "analyze"
    /\ ai > Len(screenshots)
    /\ actual' = AnalyzeResult(answers)
    /\ pc' = "analyzed"
    /\ UNCHANGED <<config, parked, envVars, runVars, captureVars, ai, answers, calls,
                   modelAnswers, hist>>

\* --------------------------------------------------- TestRunner.run, continued
\* the query result is built and not appended
AppendQueryResult_Lost(res, q, response, shots) == res

\* the query result is put in front of the earlier ones
AppendQueryResult_Front(res, q, response, shots) ==
    [res EXCEPT !.query_results = <<QueryResult(q, response, shots)>> \o @]

\* lines 190-195
AppendQueryResult(res, q, response, shots) ==
    [res EXCEPT !.query_results = Append(@, QueryResult(q, response, shots))]

\* the frames of capture and analyze are gone once run has their outcome
FramesGone ==
    /\ attempt' = 0
    /\ session' = None
    /\ screenshots' = <<>>
    /\ i' = 0
    /\ capExc' = None
    /\ sleeps' = <<>>
    /\ ai' = 1
    /\ answers' = <<>>
    /\ calls' = <<>>
    /\ modelAnswers' = <<>>

AppendResult ==
    /\ UNCHANGED faults
    /\ pc = "analyzed"
    /\ result' = AppendQueryResult(result, query, actual, screenshots)
    /\ qi' = qi + 1
    /\ FramesGone
    /\ hist' = [hist EXCEPT !.attempts = 0, !.warnings = <<>>]
    /\ pc' = "loop"
    /\ UNCHANGED <<config, parked, envVars, exc, ret, actual>>

\* the handler forgets the message
SetError_Dropped(res, e) == res

\* line 202
SetError(res, e) == [res EXCEPT !.error = Some(Str(e))]

\* the finalizer leaves end_time as it was
SetEndTime_Skipped(res, clock) == res

\* line 204
SetEndTime(res, clock) == [res EXCEPT !.end_time = Some(clock)]

\* the failure of the save is recorded as the error of the result
Finalizer_Surfaced(res, io) ==
    /\ Fault(io # "ok")
    /\ result' = IF io = "ok" THEN SetEndTime(res, now)
                 ELSE SetError(SetEndTime(res, now), Exc(io, 0))
    /\ store' = SaveResults(store, SetEndTime(res, now), io)
    /\ hist' = [hist EXCEPT !.endSets = @ + 1, !.saves = Append(@, result'),
                            !.saved = Append(@, Appended(store, store')),
                            !.attempts = 0, !.warnings = <<>>]
    /\ ret' = Some(result')
    /\ pc' = "returned"

\* lines 203-207: set end_time, save the result, return it
Finalizer(res, io) ==
    /\ Fault(io # "ok")
    /\ result' = SetEndTime(res, now)
    /\ store' = SaveResults(store, result', io)
    /\ hist' = [hist EXCEPT !.endSets = @ + 1, !.saves = Append(@, result'),
                            !.saved = Append(@, Appended(store, store')),
                            !.attempts = 0, !.warnings = <<>>]
    /\ ret' = Some(result')
    /\ pc' = "returned"

\* best effort instead of fail fast: the handler records the failure and the
\* loop goes on with the next query
Except_BestEffort(io) ==
    /\ UNCHANGED faults
    /\ pc = "except"
    /\ result' = SetError(result, exc[1])
    /\ qi' = qi + 1
    /\ FramesGone
    /\ pc' = "loop"
    /\ UNCHANGED <<config, parked, envVars, exc, ret, actual, hist>>

\* lines 200-207: the handler of run, then the finalizer and the return
Except(io) ==
    /\ pc = "except"
    /\ Finalizer(SetError(result, exc[1]), io)
    /\ FramesGone
    /\ UNCHANGED <<config, parked, files, now, openBrowsers, qi, exc, actual>>

\* lines 203-207 when the loop ran to its end
Finally(io) ==
    /\ pc = "finally"
    /\ Finalizer(result, io)
    /\ UNCHANGED <<config, parked, files, now, openBrowsers, qi, exc, captureVars,
                   analyzeVars>>

Next ==
    \/ \E t \in UITest : Start(t)
    \/ NextQuery
    \/ LoopDone
    \/ \E o \in SetupOutcomes : SetupAttempt(o)
    \/ SetupSleep
    \/ SetupExhausted
    \/ \E ok \in BOOLEAN : Goto(ok)
    \/ \E ok \in BOOLEAN : DynShot(ok)
    \/ DynSleep
    \/ DynDone
    \/ \E ok \in BOOLEAN : SingleShot(ok)
    \/ \E ok \in BOOLEAN : ContextClose(ok)
    \/ \E ok \in BOOLEAN : BrowserClose(ok)
    \/ AnalyzeCall
    \/ \E a \in Answers : AnalyzeShot(a)
    \/ \E o \in AnalyzeOutcomes : AnalyzeFail(o)
    \/ AnalyzeReturn
    \/ AppendResult
    \/ \E io \in IoOutcomes : Except(io)
    \/ \E io \in IoOutcomes : Finally(io)

Spec == Init /\ [][Next]_vars

\* ------------------------------------------- analyze called on its own
\* VisionAnalyzer.analyze applied to screenshot lists of every length from 0
AnalyzeTest ==
    [name |-> "T", url |-> "http://page",
     queries |-> <<[question |-> 1, expected_response |-> "Yes",
                    screenshot_interval_ms |-> Some(500)]>>]

ShotList(n) == [k \in 1..n |-> get_screenshot_path(AnalyzeTest, 0, Some((k - 1) * 500))]

InitAnalyze ==
    /\ retry_attempts = 1
    /\ store \in InitStores
    /\ files = {}
    /\ now = 0
    /\ openBrowsers = 0
    /\ faults = 0
    /\ pc = "captured"
    /\ result = TestResult(AnalyzeTest, 0)
    /\ qi = 1
    /\ exc = None
    /\ ret = None
    /\ attempt = 0
    /\ session = None
    /\ \E n \in 0..MaxShots : screenshots = ShotList(n)
    /\ i = 0
    /\ capExc = None
    /\ sleeps = <<>>
    /\ ai = 1
    /\ answers = <<>>
    /\ actual = ""
    /\ calls = <<>>
    /\ modelAnswers = <<>>
    /\ hist = NoHist
    /\ parked = None

NextAnalyze ==
    \/ AnalyzeCall
    \/ \E a \in Answers : AnalyzeShot(a)
    \/ \E o \in AnalyzeOutcomes : AnalyzeFail(o)
    \/ AnalyzeReturn

SpecAnalyze == InitAnalyze /\ [][NextAnalyze]_vars

\* ------------------------------------ _save_results called again and again
\* TestResults as run hands them to _save_results: of a test without queries,
\* of a test that failed at navigation, of a test whose query was answered
StoreQuery == [question |-> 1, expected_response |-> "Yes",
               screenshot_interval_ms |-> None]
StoreTest == [name |-> "T", url |-> "http://page", queries |-> <<StoreQuery>>]

StoreResults ==
    {SetEndTime(TestResult(NoTest, 0), 0),
     SetEndTime(SetError(TestResult(StoreTest, 0), Exc("goto", 0)), 0),
     SetEndTime(AppendQueryResult(TestResult(StoreTest, 0), StoreQuery, "Yes",
                    <<get_screenshot_path(StoreTest, 0, None)>>), retry_delay),
     SetEndTime(AppendQueryResult(TestResult(StoreTest, 0), StoreQuery, "",
                    <<get_screenshot_path(StoreTest, 0, None)>>), 0)}

InitStore ==
    /\ retry_attempts = 1
    /\ store = Absent
    /\ files = {}
    /\ now = 0
    /\ openBrowsers = 0
    /\ faults = 0
    /\ pc = "save"
    /\ result = TestResult(NoTest, 0)
    /\ qi = 1
    /\ exc = None
    /\ ret = None
    /\ attempt = 0
    /\ session = None
    /\ screenshots = <<>>
    /\ i = 0
    /\ capExc = None
    /\ sleeps = <<>>
    /\ ai = 1
    /\ answers = <<>>
    /\ actual = ""
    /\ calls = <<>>
    /\ modelAnswers = <<>>
    /\ hist = NoHist
    /\ parked = None

\* lines 209-223: one call of _save_results; a store that is absent is not read
SaveCall(r, io) ==
    /\ pc = "save"
    /\ Len(hist.saves) < MaxSaves
    /\ io = "read_fail" => store.kind # "absent"
    /\ Fault(io # "ok")
    /\ result' = r
    /\ store' = SaveResults(store, r, io)
    /\ hist' = [hist EXCEPT !.saves = Append(@, r),
                            !.saved = Append(@, Appended(store, store'))]
    /\ UNCHANGED <<config, parked, files, now, openBrowsers, pc, qi, exc, ret,
                   captureVars, analyzeVars>>

NextStore == \E r \in StoreResults, io \in IoOutcomes : SaveCall(r, io)

SpecStore == InitStore /\ [][NextStore]_vars

\* ----------------------------------------- two runs on one event loop
\* the frame of the run that has the event loop
Frame ==
    [pc |-> pc, result |-> result, qi |-> qi, exc |-> exc, ret |-> ret,
     attempt |-> attempt, session |-> session, screenshots |-> screenshots,
     i |-> i, capExc |-> capExc, sleeps |-> sleeps, ai |-> ai,
     answers |-> answers, actual |-> actual, calls |-> calls,
     modelAnswers |-> modelAnswers, hist |-> hist]

\* where a run awaits: the calls of the browser and asyncio.sleep (lines 95-101,
\* 107, 115, 122, 124, 128, 132, 133); analyze and _save_results await nothing
SuspensionPoints == {"setup", "setup_sleep", "goto", "dyn", "dyn_sleep",
                     "single", "close_context", "close_browser"}

\* the tests the two runs are given: no query, or one query of a single shot
TwoRunTests ==
    {t \in UITest : /\ Len(t.queries) <= 1
                    /\ \A k \in DOMAIN t.queries :
                          ~Truthy(t.queries[k].screenshot_interval_ms)}

InitTwoRuns ==
    /\ retry_attempts \in 0..MaxRetryAttempts
    /\ store \in InitStores
    /\ files = {}
    /\ now = 0
    /\ openBrowsers = 0
    /\ faults = 0
    /\ pc = "idle"
    /\ result = TestResult(NoTest, 0)
    /\ qi = 1
    /\ exc = None
    /\ ret = None
    /\ attempt = 0
    /\ session = None
    /\ screenshots = <<>>
    /\ i = 0
    /\ capExc = None
    /\ sleeps = <<>>
    /\ ai = 1
    /\ answers = <<>>
    /\ actual = ""
    /\ calls = <<>>
    /\ modelAnswers = <<>>
    /\ hist = NoHist
    /\ parked = Some(Frame)

\* the run that has the event loop is at an await: at line 93 or at line 120
\* it is only when the loop has an iteration left
Awaiting ==
    /\ pc \in SuspensionPoints
    /\ pc = "setup" => InRange(attempt)
    /\ pc = "dyn" => i < duration

\* the run that has the event loop is suspended in an await and the other run
\* has not returned: the two runs are in flight together
Overlap == Awaiting /\ parked[1].pc # "returned"

\* the run that has the event loop awaits, has returned or has not started:
\* the event loop resumes the other run where it was suspended
Switch ==
    /\ parked # None
    /\ Awaiting \/ pc \in {"idle", "returned"}
    /\ parked' = Some([Frame EXCEPT !.hist.concurrent = @ \/ Overlap])
    /\ pc' = parked[1].pc
    /\ result' = parked[1].result
    /\ qi' = parked[1].qi
    /\ exc' = parked[1].exc
    /\ ret' = parked[1].ret
    /\ attempt' = parked[1].attempt
    /\ session' = parked[1].session
    /\ screenshots' = parked[1].screenshots
    /\ i' = parked[1].i
    /\ capExc' = parked[1].capExc
    /\ sleeps' = parked[1].sleeps
    /\ ai' = parked[1].ai
    /\ answers' = parked[1].answers
    /\ actual' = parked[1].actual
    /\ calls' = parked[1].calls
    /\ modelAnswers' = parked[1].modelAnswers
    /\ hist' = [parked[1].hist EXCEPT !.concurrent = @ \/ Overlap]
    /\ UNCHANGED <<config, envVars, faults>>

\* the actions of run on the tests of TwoRunTests, and the event loop
NextTwoRuns ==
    \/ \E t \in TwoRunTests : Start(t)
    \/ NextQuery
    \/ LoopDone
    \/ \E o \in SetupOutcomes : SetupAttempt(o)
    \/ SetupSleep
    \/ SetupExhausted
    \/ \E ok \in BOOLEAN : Goto(ok)
    \/ \E ok \in BOOLEAN : SingleShot(ok)
    \/ \E ok \in BOOLEAN : ContextClose(ok)
    \/ \E ok \in BOOLEAN : BrowserClose(ok)
    \/ AnalyzeCall
    \/ \E a \in Answers : AnalyzeShot(a)
    \/ \E o \in AnalyzeOutcomes : AnalyzeFail(o)
    \/ AnalyzeReturn
    \/ AppendResult
    \/ \E io \in IoOutcomes : Except(io)
    \/ \E io \in IoOutcomes : Finally(io)
    \/ Switch

SpecTwoRuns == InitTwoRuns /\ [][NextTwoRuns]_vars

\* =================================================================== claims
SetupSources == {"launch", "page", "unpack"}
CaptureSources == {"goto", "screenshot", "context.close", "browser.close"}
AnalysisSources == {"load", "encode", "query"}

C2_FailFast ==
    hist.failedAt # 0 =>
        LET n == hist.failedAt
        IN  /\ Len(result.query_results) = n - 1
            /\ \A k \in 1..(n - 1) : result.query_results[k].query = test.queries[k]
            /\ hist.captures \subseteq 1..n
            /\ hist.analyses \subseteq 1..n
            /\ hist.shots \subseteq 1..n
            /\ \A f \in files : f.image.q <= n
            /\ pc \in {"except", "returned"}
            /\ pc = "returned" => /\ ret[1].error # None
                                  /\ Len(ret[1].query_results) = n - 1

\* C2 witness: the first of two queries failed in analysis, after its
\* screenshot was written; run has returned and the second was never started
C2_Witness ==
    /\ pc = "returned"
    /\ hist.failedAt = 1
    /\ Len(test.queries) = 2
    /\ exc[1].src \in AnalysisSources
    /\ files # {}
    /\ hist.captures = {1}

\* C3: the result is finalized exactly once, on both paths: until run returns
\* end_time is unset and nothing was saved; when run has returned, end_time
\* was set once to a time >= start_time, _save_results was called once, with
\* the result that carries that end_time, and that result is the one returned.
C3_FinalizedOnce ==
    /\ hist.endSets <= 1
    /\ Len(hist.saves) <= 1
    /\ pc # "returned" => /\ hist.endSets = 0
                          /\ hist.saves = <<>>
                          /\ result.end_time = None
                          /\ ret = None
    /\ pc = "returned" => /\ hist.endSets = 1
                          /\ Len(hist.saves) = 1
                          /\ ret # None
                          /\ ret[1].end_time # None
                          /\ ret[1].end_time[1] >= ret[1].start_time
                          /\ hist.saves[1] = ret[1]
                          /\ hist.saves[1].end_time # None

\* C3 witness: a run that failed after a retry delay has returned, finalized
C3_Witness ==
    /\ pc = "returned"
    /\ ret[1].error # None
    /\ ret[1].end_time[1] > ret[1].start_time
    /\ Len(hist.saves) = 1

\* C4 (as claimed): when capture, having acquired a session, returns or lets a
\* failure through, the context and the browser of that session are closed.
\* Line 132 raising in the finally block skips line 133.
C4_ReleasedOnExit ==
    (pc \in {"captured", "except"} /\ session # None) =>
        /\ session[1].context = "closed"
        /\ session[1].browser = "closed"

\* the sleeps of the capture that follow those of _setup_browser
BurstSleeps == IF hist.attempts = 0 THEN sleeps
               ELSE SubSeq(sleeps, hist.attempts, Len(sleeps))

\* C5: bounded retry. _setup_browser makes at most retry_attempts attempts and
\* sleeps retry_delay after each failed attempt but the last; when attempt k
\* succeeds the k-1 failures before it were logged and nothing is raised; when
\* all attempts fail the error raised is the one of the last attempt, no sleep
\* follows it, and run returns a TestResult whose error is its message.
C5_BoundedRetry ==
    /\ hist.attempts <= retry_attempts
    /\ pc \in {"setup", "setup_sleep"} =>
          /\ Len(hist.warnings) = hist.attempts
          /\ Len(sleeps) = attempt
          /\ \A k \in DOMAIN sleeps : sleeps[k] = retry_delay
          /\ exc = None
    /\ pc = "setup_sleep" => attempt + 1 < retry_attempts
    /\ pc = "goto" =>
          /\ session # None
          /\ exc = None
          /\ Len(hist.warnings) = hist.attempts - 1
          /\ sleeps = [k \in 1..(hist.attempts - 1) |-> retry_delay]
    /\ (pc = "except" /\ exc[1].src \in {"launch", "page"}) =>
          /\ hist.attempts = retry_attempts
          /\ exc[1].msg.n = retry_attempts - 1
          /\ session = None
          /\ sleeps = [k \in 1..(retry_attempts - 1) |-> retry_delay]
    /\ (pc = "returned" /\ exc # None /\ exc[1].src \in {"launch", "page"}) =>
          /\ exc[1].msg.n = retry_attempts - 1
          /\ ret[1].error = Some(Str(Exc(exc[1].src, retry_attempts - 1)))

\* C5 witness: both of two attempts failed, the second after the browser was
\* launched; run has returned with the error of the second attempt
C5_Witness ==
    /\ pc = "returned"
    /\ retry_attempts = 2
    /\ exc # None
    /\ ret[1].error = Some(Str(Exc("page", 1)))
    /\ ret[1].query_results = <<>>
    /\ now = retry_delay

\* C6 (as claimed): a capture that returns has taken 1 screenshot when
\* screenshot_interval_ms is absent and 5, each followed by a sleep of d ms,
\* when it is present with a value d >= 0. Line 117 tests the value for truth,
\* so d = 0 is taken for absent.
C6_ShotCount ==
    pc = "captured" =>
        IF query.screenshot_interval_ms = None
        THEN Len(screenshots) = 1 /\ BurstSleeps = <<>>
        ELSE /\ Len(screenshots) = ShotsPerBurst
             /\ BurstSleeps = [k \in 1..ShotsPerBurst |-> interval]

RECURSIVE ExpectedCalls(_, _)
\* the steps of an analysis that got through k-1 screenshots and took the
\* given outcome on the k-th
ExpectedCalls(k, outcome) ==
    IF k = 0 THEN <<>>
    ELSE ExpectedCalls(k - 1, "ok") \o CallsOf(k, outcome)

\* C7 (as claimed): analyze on a non-empty list returns the answer of the last
\* screenshot, and returns "" only when the list is empty.
C7_EmptyOnlyWhenNoShots ==
    pc = "analyzed" =>
        /\ screenshots # <<>> => actual = modelAnswers[Len(modelAnswers)]
        /\ actual = "" => screenshots = <<>>

\* C7 (amended): analyze queries the screenshots in list order, once each, and
\* returns what the model answered for the last one, be it the empty string;
\* on the empty list it makes no call and returns "".
C7_LastAnswer ==
    pc = "analyzed" =>
        /\ calls = ExpectedCalls(Len(screenshots), "ok")
        /\ Len(modelAnswers) = Len(screenshots)
        /\ IF screenshots = <<>>
           THEN actual = ""
           ELSE actual = modelAnswers[Len(screenshots)]

\* C7 witness: analyze returned on the longest list, whose first and last
\* answers differ
C7_Witness ==
    /\ pc = "analyzed"
    /\ Len(screenshots) = MaxShots
    /\ modelAnswers[1] # modelAnswers[MaxShots]
    /\ actual = modelAnswers[MaxShots]

\* C8: analysis fails at once. A failed step is the last step analyze makes:
\* no step of a later screenshot follows it and it is not repeated; the
\* failure raised is the one of that step, and the query gets no QueryResult.
C8_AnalysisFailsFast ==
    /\ \A j \in 1..(Len(calls) - 1) : calls[j].ok
    /\ (pc = "except" /\ exc[1].src \in AnalysisSources) =>
          /\ calls = ExpectedCalls(exc[1].msg.n, exc[1].src)
          /\ ~calls[Len(calls)].ok
          /\ calls[Len(calls)].step = exc[1].src
          /\ exc[1].msg.n = ai
          /\ Len(result.query_results) = qi - 1
    /\ (pc = "returned" /\ exc # None /\ exc[1].src \in AnalysisSources) =>
          /\ ret[1].error = Some(Str(exc[1]))
          /\ Len(ret[1].query_results) = hist.failedAt - 1

\* C8 witness: encoding the second of five screenshots failed
C8_Witness ==
    /\ pc = "except"
    /\ exc[1].src = "encode"
    /\ exc[1].msg.n = 2
    /\ Len(screenshots) = ShotsPerBurst
    /\ Len(calls) = 5

\* C9: a returned TestResult has at most as many query results as the test has
\* queries, and fewer exactly when its error is set.
C9_ShorterIffError ==
    pc = "returned" =>
        /\ Len(ret[1].query_results) <= Len(ret[1].test.queries)
        /\ (Len(ret[1].query_results) < Len(ret[1].test.queries))
              <=> (ret[1].error # None)

\* C9 witness: the second of two queries failed
C9_Witness ==
    /\ pc = "returned"
    /\ Len(ret[1].test.queries) = 2
    /\ Len(ret[1].query_results) = 1
    /\ ret[1].error # None

\* C10: queries run in list order, one at a time: capture and analysis of a
\* query start only when the results of all queries before it are appended;
\* when no capture and no analysis failed, the TestResult returned has no
\* error and one QueryResult per query, in the order of test.queries.
C10_AllSucceedInOrder ==
    /\ pc # "returned" =>
          /\ hist.captures \subseteq 1..(Len(result.query_results) + 1)
          /\ hist.analyses \subseteq 1..(Len(result.query_results) + 1)
    /\ pc \in {"setup", "setup_sleep", "goto", "dyn", "dyn_sleep", "single",
               "close_context", "close_browser", "captured", "analyze", "analyzed"} =>
          /\ qi = Len(result.query_results) + 1
          /\ qi \in hist.captures
          /\ hist.analyses \subseteq 1..qi
          /\ (qi \in hist.analyses) <=> (pc \in {"analyze", "analyzed"})
    /\ (pc = "returned" /\ exc = None) =>
          /\ ret[1].error = None
          /\ Len(ret[1].query_results) = Len(ret[1].test.queries)
          /\ \A k \in DOMAIN ret[1].test.queries :
                ret[1].query_results[k].query = ret[1].test.queries[k]
          /\ hist.captures = DOMAIN ret[1].test.queries
          /\ hist.analyses = DOMAIN ret[1].test.queries

\* C10 witness: a single-shot query and then a dynamic one, both succeeded
C10_Witness ==
    /\ pc = "returned"
    /\ exc = None
    /\ Len(ret[1].test.queries) = 2
    /\ ret[1].test.queries[1].screenshot_interval_ms = None
    /\ ret[1].test.queries[2].screenshot_interval_ms = Some(500)
    /\ Len(ret[1].query_results[1].screenshots) = 1
    /\ Len(ret[1].query_results[2].screenshots) = ShotsPerBurst

\* the records of a sequence of TestResults
Records(rs) == [k \in DOMAIN rs |-> to_dict(rs[k])]

\* C11: sequential appends preserve prior entries. Starting from an absent
\* store, after N calls of _save_results none of which failed the store is an
\* array of length N whose i-th entry is to_dict of the i-th TestResult: no
\* call changed, reordered or removed an entry written by an earlier one.
C11_AppendsPreserved ==
    faults = 0 =>
        /\ Len(store.entries) = Len(hist.saves)
        /\ store = IF hist.saves = <<>> THEN Absent ELSE Valid(Records(hist.saves))
        /\ \A k \in DOMAIN hist.saved : hist.saved[k]

\* C11 witness: the store holds the records of as many appends as the bound
\* allows, of three different TestResults
C11_Witness ==
    /\ faults = 0
    /\ Len(hist.saves) = MaxSaves
    /\ store.kind = "valid"
    /\ Cardinality({store.entries[k] : k \in DOMAIN store.entries}) >= 3

RECURSIVE Kept(_, _)
\* the TestResults whose call of _save_results appended a record
Kept(rs, flags) ==
    IF rs = <<>> THEN <<>>
    ELSE (IF Head(flags) THEN <<Head(rs)>> ELSE <<>>) \o Kept(Tail(rs), Tail(flags))

\* C12 (as claimed): the rewrite of the store is atomic. Whatever fails in a
\* call of _save_results, the file afterwards parses and holds the records of
\* exactly the calls that appended, so that earlier records stay readable.
\* Line 220 truncates the file before line 221 writes it: a failure of
\* json.dump leaves a file that json.load rejects from then on.
C12_AtomicRewrite ==
    /\ store.kind \in {"absent", "valid"}
    /\ store.entries = Records(Kept(hist.saves, hist.saved))

\* C13: a failure of the store never surfaces and never alters the result.
\* The step in which run returns is the one that calls _save_results, once;
\* whether the read, the open or the write of the store fails or all succeed,
\* run returns the result it had before the save, with end_time set: error is
\* the message of the failure run caught, if any, and nothing else changes.
C13_SaveFailureSwallowed ==
    [][(pc # "returned" /\ pc' = "returned") =>
          /\ pc \in {"except", "finally"}
          /\ Len(hist'.saves) = Len(hist.saves) + 1
          /\ ret' = Some([result EXCEPT
                            !.end_time = Some(now),
                            !.error = IF pc = "except" THEN Some(exc[1].msg)
                                      ELSE None])
          /\ result.error = None]_vars

\* C13 witness: both queries were answered, the write of the store failed, and
\* run has returned the result without an error
C13_Witness ==
    /\ pc = "returned"
    /\ hist.saved = <<FALSE>>
    /\ store.kind = "corrupt"
    /\ ret # None
    /\ ret[1].error = None
    /\ Len(ret[1].query_results) = 2
    /\ ret[1].end_time # None

\* C15: a test without queries. run goes from the loop straight to the
\* finalizer: no capture starts, no browser is launched, no file is written
\* and nothing is raised; it returns a TestResult with no query results and
\* no error, and _save_results is called once, with that result, which is
\* the record appended to the store when the save does not fail.
C15_EmptyTest ==
    (pc # "idle" /\ test.queries = <<>>) =>
        /\ pc \in {"loop", "finally", "returned"}
        /\ hist.captures = {}
        /\ hist.attempts = 0
        /\ session = None
        /\ openBrowsers = 0
        /\ files = {}
        /\ exc = None
        /\ pc # "returned" => hist.saves = <<>>
        /\ pc = "returned" =>
              /\ ret # None
              /\ ret[1].query_results = <<>>
              /\ ret[1].error = None
              /\ hist.saves = <<ret[1]>>
              /\ faults = 0 => hist.saved = <<TRUE>>
              /\ hist.saved = <<TRUE>> =>
                    store = Valid(<<PriorRecord, to_dict(ret[1])>>)

\* C15 witness: run has returned for a test without queries and its record
\* is in the store
C15_Witness ==
    /\ pc = "returned"
    /\ ret # None
    /\ ret[1].test.queries = <<>>
    /\ ret[1].query_results = <<>>
    /\ Len(store.entries) = 2

\* C16: in every state, every QueryResult of the TestResult is the one of the
\* query at its position, has no error, has passed unset and has at least one
\* screenshot; a query whose capture or analysis failed has no QueryResult:
\* the list ends before it.
C16_QueryResultsClean ==
    /\ \A k \in DOMAIN result.query_results :
          /\ result.query_results[k].query = test.queries[k]
          /\ result.query_results[k].error = None
          /\ result.query_results[k].passed = None
          /\ result.query_results[k].screenshots # <<>>
    /\ hist.failedAt # 0 => Len(result.query_results) = hist.failedAt - 1
    /\ pc = "returned" => ret = Some(result)

\* C16 witness: the first query has its result, with the five screenshots of
\* a burst; the second failed after its screenshot was taken and has none
C16_Witness ==
    /\ pc = "returned"
    /\ hist.failedAt = 2
    /\ hist.shots = {1, 2}
    /\ Len(ret[1].query_results) = 1
    /\ Len(ret[1].query_results[1].screenshots) = ShotsPerBurst
    /\ ret[1].query_results[1].error = None

\* C17 (as claimed): no browser outlives a run. A run holds at most one open
\* browser at any moment, and when run has returned every browser launched
\* during the run is closed. An attempt of _setup_browser that fails after
\* line 96 drops its browser without closing it, and line 132 raising skips
\* line 133.
C17_NoBrowserOutlives ==
    /\ openBrowsers <= 1
    /\ pc = "returned" => openBrowsers = 0

\* C18 (as claimed): screenshot files are never overwritten. The paths
\* recorded in the QueryResults of a TestResult are pairwise distinct, and the
\* file at each of them holds the image taken for that query at that
\* position. The timestamp of line 138 is cut to the second, so two captures
\* of one test within a second get the same path.
C18_DistinctPaths ==
    LET shots == {[q |-> k, k |-> j] :
                    k \in DOMAIN result.query_results, j \in 1..(MaxShots + 1)}
        known == {s \in shots : s.k <= Len(result.query_results[s.q].screenshots)}
        path(s) == result.query_results[s.q].screenshots[s.k]
    IN  /\ \A s, t \in known : s # t => path(s) # path(t)
        /\ \A s \in known : [path |-> path(s), image |-> s] \in files

\* C19 (as claimed): _setup_browser either returns a session or raises the
\* error of a setup attempt, for every value of retry_attempts: capture is
\* past line 111 only with a session, and a failure of the acquisition is one
\* of launch, new_context or new_page. With retry_attempts = 0 the loop of
\* line 93 has no iteration and the function returns None.
C19_SessionOrFailure ==
    /\ pc \in {"goto", "dyn", "dyn_sleep", "single", "close_context",
               "close_browser"} => session # None
    /\ (exc # None /\ exc[1].src \in SetupSources) =>
          exc[1].src \in {"launch", "page"}

\* the two runs of the event loop, and those whose save appended a record
Runs == <<Frame, parked[1]>>
Persisted == {n \in 1..2 : Runs[n].hist.saved = <<TRUE>>}

====
